---- MODULE Spec2Model ----
(***************************************************************************)
(* Model of the bubbler importer (src/importer.py): the conversion of the  *)
(* input records, the submission worker send_waypoint with its duplicate   *)
(* heuristics, and the dispatcher loop of main over a thread pool.         *)
(*                                                                         *)
(* Python strings that the code searches are sequences of one-character    *)
(* strings, so that lower() and the `in` substring test are computed.      *)
(***************************************************************************)
EXTENDS Integers, Sequences, FiniteSets, TLC

(***************************************************************************)
(* Bounds of the model.                                                    *)
(***************************************************************************)
MaxBatch == 3

MaxWorkers == 2

(***************************************************************************)
(* Text.                                                                   *)
(***************************************************************************)
UpperChars == <<"A","B","C","D","E","F","G","H","I","J","K","L","M","N","O","P","Q","R","S","T","U","V","W","X","Y","Z">>

LowerChars == <<"a","b","c","d","e","f","g","h","i","j","k","l","m","n","o","p","q","r","s","t","u","v","w","x","y","z">>

DigitChars == <<"0","1","2","3","4","5","6","7","8","9">>

\* str.lower() on one character
LowerChar(c) ==
    IF \E k \in 1..Len(UpperChars) : UpperChars[k] = c
    THEN LowerChars[CHOOSE k \in 1..Len(UpperChars) : UpperChars[k] = c]
    ELSE c

\* str.lower()
Lower(s) == [k \in 1..Len(s) |-> LowerChar(s[k])]

\* Python's `sub in s` on strings
Contains(sub, s) ==
    \E k \in 0..(Len(s) - Len(sub)) : \A j \in 1..Len(sub) : s[k + j] = sub[j]

\* the literals send_waypoint searches for (lines 68 and 71)
SigUniqueConstraint == <<"u","n","i","q","u","e"," ","c","o","n","s","t","r","a","i","n","t">>

SigP2002 == <<"p","2","0","0","2">>

SigUniqueConstraintFailed == <<"u","n","i","q","u","e"," ","c","o","n","s","t","r","a","i","n","t"," ","f","a","i","l","e","d">>

SigDuplicate == <<"d","u","p","l","i","c","a","t","e">>

SigLatitude == <<"l","a","t","i","t","u","d","e">>

SigLongitude == <<"l","o","n","g","i","t","u","d","e">>

\* the keys body.get() looks up (line 62)
KeyError == <<"e","r","r","o","r">>

KeyMessage == <<"m","e","s","s","a","g","e">>

(***************************************************************************)
(* JSON values, as resp.json() returns them.  A plain-text body (resp.text *)
(* after json() failed) is a Python str like a JSON string.                *)
(* t: the type; s: the characters of a str; n: the number, or 1/0 for a    *)
(* bool; f: the (key, value) pairs of a dict in document order.            *)
(***************************************************************************)
JNull == [t |-> "null", s |-> <<>>, n |-> 0, f |-> <<>>]

JStr(s) == [t |-> "str", s |-> s, n |-> 0, f |-> <<>>]

JNum(n) == [t |-> "num", s |-> <<>>, n |-> n, f |-> <<>>]

JBool(b) == [t |-> "bool", s |-> <<>>, n |-> IF b THEN 1 ELSE 0, f |-> <<>>]

JObj(f) == [t |-> "obj", s |-> <<>>, n |-> 0, f |-> f]

\* Python truthiness, as the `or` chain of line 62 tests it
Truthy(v) ==
    CASE v.t = "str" -> v.s # <<>>
      [] v.t = "num" -> v.n # 0
      [] v.t = "bool" -> v.n # 0
      [] v.t = "obj" -> v.f # <<>>
      [] OTHER -> FALSE

\* dict.get(key): the value, or None when the key is absent
Get(body, key) ==
    IF \E k \in 1..Len(body.f) : body.f[k][1] = key
    THEN body.f[CHOOSE k \in 1..Len(body.f) : body.f[k][1] = key][2]
    ELSE JNull

RECURSIVE NumStr(_)
\* str() of a natural number
NumStr(n) ==
    IF n < 10 THEN <<DigitChars[n + 1]>>
    ELSE NumStr(n \div 10) \o <<DigitChars[(n % 10) + 1]>>

RECURSIVE Repr(_)
RECURSIVE ReprFields(_)
\* repr() of a value, as str() of a dict shows its parts
Repr(v) ==
    CASE v.t = "str" -> <<"'">> \o v.s \o <<"'">>
      [] v.t = "num" -> NumStr(v.n)
      [] v.t = "bool" -> IF v.n # 0 THEN <<"T","r","u","e">> ELSE <<"F","a","l","s","e">>
      [] v.t = "obj" -> <<"{">> \o ReprFields(v.f) \o <<"}">>
      [] OTHER -> <<"N","o","n","e">>

ReprFields(f) ==
    IF f = <<>> THEN <<>>
    ELSE <<"'">> \o f[1][1] \o <<"'", ":", " ">> \o Repr(f[1][2])
         \o (IF Len(f) > 1 THEN <<",", " ">> \o ReprFields(Tail(f)) ELSE <<>>)

\* str(body)
Str(v) == IF v.t = "str" THEN v.s ELSE Repr(v)

(***************************************************************************)
(* The server's answers to a POST: an HTTP response with a status code and *)
(* a body, or a requests.RequestException with its description.            *)
(***************************************************************************)
TxtInternal == <<"I","n","t","e","r","n","a","l"," ","s","e","r","v","e","r"," ","e","r","r","o","r">>

TxtP2002 == <<"P","2","0","0","2">>

TxtDuplicateEntry == <<"d","u","p","l","i","c","a","t","e"," ","e","n","t","r","y"," ","d","e","t","e","c","t","e","d">>

TxtUniqueFailed == <<"U","n","i","q","u","e"," ","c","o","n","s","t","r","a","i","n","t"," ","f","a","i","l","e","d"," ","o","n"," ","(","l","a","t","i","t","u","d","e",","," ","l","o","n","g","i","t","u","d","e",")">>

TxtUniqueShort == <<"U","n","i","q","u","e"," ","c","o","n","s","t","r","a","i","n","t"," ","f","a","i","l","e","d">>

TxtBadRequest == <<"B","a","d"," ","r","e","q","u","e","s","t">>

TxtInvalidLatitude == <<"I","n","v","a","l","i","d"," ","l","a","t","i","t","u","d","e">>

TxtLatLonRequired == <<"l","a","t","i","t","u","d","e"," ","a","n","d"," ","l","o","n","g","i","t","u","d","e"," ","r","e","q","u","i","r","e","d">>

TxtTimeout == <<"R","e","a","d"," ","t","i","m","e","d"," ","o","u","t">>

TxtExcDuplicate == <<"D","u","p","l","i","c","a","t","e"," ","P","2","0","0","2"," ","u","n","i","q","u","e"," ","c","o","n","s","t","r","a","i","n","t">>

KeyCode == <<"c","o","d","e">>

Http(status, body) == [kind |-> "http", status |-> status, body |-> body, exc |-> <<>>]

Exc(text) == [kind |-> "exc", status |-> 0, body |-> JNull, exc |-> text]

BodyUniqueFailed == JObj(<< <<KeyError, JStr(TxtUniqueFailed)>> >>)

BodyInternal == JObj(<< <<KeyMessage, JStr(TxtInternal)>> >>)

BodyDuplicateEntry == JObj(<< <<KeyError, JStr(TxtDuplicateEntry)>> >>)

BodyNestedError == JObj(<< <<KeyError, JObj(<< <<KeyCode, JStr(TxtP2002)>> >>)>> >>)

Bodies ==
    { JStr(<<>>), JStr(TxtInternal), JStr(TxtP2002), JStr(TxtDuplicateEntry),
      JStr(TxtLatLonRequired), JNull,
      BodyUniqueFailed, BodyInternal, BodyDuplicateEntry, BodyNestedError,
      JObj(<<>>),
      JObj(<< <<KeyError, JStr(<<>>)>>, <<KeyMessage, JStr(TxtP2002)>> >>),
      JObj(<< <<KeyError, JStr(TxtBadRequest)>>, <<KeyMessage, JStr(TxtUniqueShort)>> >>),
      JObj(<< <<KeyError, JNull>>, <<KeyMessage, JStr(TxtDuplicateEntry)>> >>),
      JObj(<< <<KeyError, JNum(500)>> >>),
      JObj(<< <<KeyError, JBool(TRUE)>>, <<KeyMessage, JStr(TxtInternal)>> >>),
      JObj(<< <<KeyCode, JStr(TxtP2002)>> >>),
      JObj(<< <<KeyError, JStr(TxtInvalidLatitude)>> >>),
      JObj(<< <<KeyMessage, JStr(TxtLatLonRequired)>> >>),
      JObj(<< <<SigLatitude, JNum(0)>>, <<SigLongitude, JNum(0)>> >>) }

Statuses == {200, 201, 400, 409, 500}

Responses ==
    { Http(st, b) : st \in Statuses, b \in Bodies }
    \cup { Exc(TxtTimeout), Exc(TxtExcDuplicate) }

\* the answers the dispatcher's runs draw from: one of each outcome
DispatchResponses ==
    { Http(201, JObj(<<>>)), Http(409, BodyUniqueFailed), Http(500, BodyNestedError),
      Exc(TxtTimeout) }

(***************************************************************************)
(* send_waypoint (lines 36-81).                                            *)
(***************************************************************************)
\* requests' Response.ok, read at line 45
RespOk(resp) == resp.status < 400

\* a result dict; status_code and response are <<>> for None / no such key
Result(ok, status, response, payload, skipped) ==
    [raised |-> FALSE, exc |-> "", ok |-> ok, status_code |-> status,
     response |-> response, payload |-> payload, skipped |-> skipped]

\* an exception that leaves send_waypoint
Raised(exc, payload) ==
    [raised |-> TRUE, exc |-> exc, ok |-> FALSE, status_code |-> <<>>,
     response |-> <<>>, payload |-> payload, skipped |-> FALSE]

\* lines 59-64 with a field taken whenever its key is present, whatever its value
ErrTextByPresence(body) ==
    IF body.t = "obj"
    THEN IF \E k \in 1..Len(body.f) : body.f[k][1] = KeyError THEN Get(body, KeyError)
         ELSE IF \E k \in 1..Len(body.f) : body.f[k][1] = KeyMessage THEN Get(body, KeyMessage)
         ELSE JStr(Str(body))
    ELSE JStr(Str(body))

\* lines 59-64: the value bound to err_text
ErrText(body) ==
    IF body.t = "obj"
    THEN IF Truthy(Get(body, KeyError)) THEN Get(body, KeyError)
         ELSE IF Truthy(Get(body, KeyMessage)) THEN Get(body, KeyMessage)
         ELSE JStr(Str(body))
    ELSE JStr(Str(body))

\* line 68
IsPrismaP2002(lowered) ==
    \/ Contains(SigUniqueConstraint, lowered)
    \/ Contains(SigP2002, lowered)
    \/ Contains(SigUniqueConstraintFailed, lowered)

\* line 71
IsLooseDuplicate(lowered) ==
    \/ Contains(SigDuplicate, lowered)
    \/ (Contains(SigLatitude, lowered) /\ Contains(SigLongitude, lowered))

\* lines 73-74 with the loose signature counted whatever the flag
IsSkippedLooseAlways(cfg, lowered) ==
    IsPrismaP2002(lowered) \/ IsLooseDuplicate(lowered)

\* lines 73-74 with the flag choosing between the two signatures
IsSkippedByMode(cfg, lowered) ==
    IF cfg.aggressive_duplicate_detection THEN IsLooseDuplicate(lowered)
    ELSE IsPrismaP2002(lowered)

\* lines 73-74
IsSkipped(cfg, lowered) ==
    IsPrismaP2002(lowered) \/ (cfg.aggressive_duplicate_detection /\ IsLooseDuplicate(lowered))

\* lines 44-74 without the `if not ok` of line 57
OnResponseNoOkGuard(payload, cfg, resp) ==
    LET err_text == ErrText(resp.body)
    IN  IF err_text.t # "str"
        THEN Raised("AttributeError", payload)
        ELSE Result(RespOk(resp), <<resp.status>>, <<resp.body>>, payload,
                    IsSkipped(cfg, Lower(err_text.s)))

\* lines 44-74: the try block on a response that arrived
OnResponse(payload, cfg, resp) ==
    LET ok == RespOk(resp)
        body == resp.body
    IN  IF ~ok
        THEN LET err_text == ErrText(body)
             IN  IF err_text.t # "str"
                 THEN Raised("AttributeError", payload)  \* line 66: no lower() on it
                 ELSE Result(ok, <<resp.status>>, <<body>>, payload,
                             IsSkipped(cfg, Lower(err_text.s)))
        ELSE Result(ok, <<resp.status>>, <<body>>, payload, FALSE)

\* lines 75-79 with the exception text searched for the strict signature
OnRequestExceptionClassified(payload, resp) ==
    Result(FALSE, <<>>, <<JStr(resp.exc)>>, payload, IsPrismaP2002(Lower(resp.exc)))

\* lines 75-79: the except clause
OnRequestException(payload, resp) ==
    Result(FALSE, <<>>, <<JStr(resp.exc)>>, payload, FALSE)

\* lines 40-41
DryRunResult(payload) == Result(TRUE, <<>>, <<>>, payload, FALSE)

\* send_waypoint without the dry_run test of line 40
SendWaypointNoDryRun(payload, cfg, resp) ==
    IF resp.kind = "exc" THEN OnRequestException(payload, resp)
    ELSE OnResponse(payload, cfg, resp)

SendWaypoint(payload, cfg, resp) ==
    IF cfg.dry_run THEN DryRunResult(payload)
    ELSE IF resp.kind = "exc" THEN OnRequestException(payload, resp)
    ELSE OnResponse(payload, cfg, resp)

\* lines 138-150: the branch main takes for a result
TallyKind(result) ==
    IF result.skipped THEN "skipped"
    ELSE IF result.ok THEN "sent"
    ELSE "failed"

(***************************************************************************)
(* convert_entry (lines 87-98).                                            *)
(***************************************************************************)
RecFountain == <<"B12", <<"Fountain">>, -31, 115>>

RecTap == <<"T7", <<"Tap", "Fountain">>, 10, 20>>

RecNoCategory == <<"X0", <<>>, 0, 0>>

\* categories[0] raises IndexError on an empty list (line 93)
ConvertRaises(entry) == entry[2] = <<>>

\* convert_entry with latitude and longitude read from each other's position
convert_entry_swapped(entry) ==
    [name |-> entry[2][1] \o " " \o entry[1],
     latitude |-> entry[4],
     longitude |-> entry[3],
     description |-> "Auto-imported feature c1 '" \o entry[2][1] \o "' (code " \o entry[1] \o ")",
     addedByUserId |-> "data2"]

convert_entry(entry) ==
    LET code == entry[1]
        categories == entry[2]
        lat == entry[3]
        lon == entry[4]
    IN  [name |-> categories[1] \o " " \o code,
         latitude |-> lat,
         longitude |-> lon,
         description |-> "Auto-imported feature c1 '" \o categories[1] \o "' (code " \o code \o ")",
         addedByUserId |-> "data2"]

Configs ==
    [dry_run : BOOLEAN, aggressive_duplicate_detection : BOOLEAN, max_workers : 1..MaxWorkers]

(***************************************************************************)
(* The input document json.load returns (line 105).                        *)
(***************************************************************************)
\* a batch of n well-formed entries
GoodBatch(n) == [k \in 1..n |-> IF k % 2 = 1 THEN RecFountain ELSE RecTap]

\* the batches of the runs: well-formed ones, and those with one entry lacking a category
Batches ==
    { GoodBatch(n) : n \in 0..MaxBatch }
    \cup UNION { { [GoodBatch(n) EXCEPT ![j] = RecNoCategory] : j \in 1..n } : n \in 1..MaxBatch }

Blob(kind, has_data, data) == [kind |-> kind, has_data |-> has_data, data |-> data]

Blobs ==
    { Blob("list", FALSE, b) : b \in Batches }
    \cup { Blob("dict", TRUE, b) : b \in { <<>>, <<RecFountain>>, <<RecNoCategory>> } }
    \cup { Blob("dict", FALSE, <<>>), Blob("other", FALSE, <<>>) }

\* the orders in which a set iteration may list the members of a sequence
Perms(q) ==
    { [k \in 1..Len(q) |-> q[p[k]]] :
        p \in { f \in [1..Len(q) -> 1..Len(q)] : \A a, b \in 1..Len(q) : f[a] = f[b] => a = b } }

(***************************************************************************)
(* State.                                                                  *)
(***************************************************************************)
VARIABLES
    CONFIG,        \* the CONFIG dict (lines 11-23): the options the code reads
    probe,         \* one call of send_waypoint and its tally, taken alone
    blob,          \* the parsed input document
    pc,            \* main's position
    error,         \* the exception that ended main, "" when none
    data_entries,
    total,
    payloads,
    futures,       \* per submitted payload: its state and, once finished, its outcome
    work_queue,    \* the executor's queue of submissions no thread has taken yet
    num_threads,   \* the executor's threads
    completed,     \* finished futures as_completed has yet to yield, in yielding order
    yielded,       \* the futures as_completed has yielded
    result,        \* main's `result`, <<>> before the first
    lock,          \* whether main holds `lock`
    processed,
    sent,
    skipped,
    failed,
    output,        \* the progress lines printed
    summary,       \* the final block printed, <<>> before
    posts          \* per submitted payload: the POSTs issued for it

vars ==
    <<CONFIG, probe, blob, pc, error, data_entries, total, payloads, futures, work_queue,
      num_threads, completed, yielded, result, lock, processed, sent, skipped, failed,
      output, summary, posts>>

mainVars ==
    <<blob, pc, error, data_entries, total, payloads, futures, work_queue,
      num_threads, completed, yielded, result, lock, processed, sent, skipped, failed,
      output, summary, posts>>

ProbeIdle == [stage |-> "none", resp |-> Exc(<<>>), out |-> <<>>, tally |-> ""]

Running == { i \in 1..Len(futures) : futures[i].state = "running" }

Pending == { i \in 1..Len(futures) : futures[i].state = "pending" }

Finished == { i \in 1..Len(futures) : futures[i].state = "finished" }

(***************************************************************************)
(* main (lines 103-157) and the pool's threads.                            *)
(***************************************************************************)
Init ==
    /\ CONFIG \in Configs
    /\ probe = ProbeIdle
    /\ blob \in Blobs
    /\ pc = "load"
    /\ error = ""
    /\ data_entries = <<>>
    /\ total = 0
    /\ payloads = <<>>
    /\ futures = <<>>
    /\ work_queue = <<>>
    /\ num_threads = 0
    /\ completed = <<>>
    /\ yielded = {}
    /\ result = <<>>
    /\ lock = FALSE
    /\ processed = 0
    /\ sent = 0
    /\ skipped = 0
    /\ failed = 0
    /\ output = <<>>
    /\ summary = <<>>
    /\ posts = <<>>

\* lines 104-116
MainLoad ==
    /\ pc = "load"
    /\ IF blob.kind = "dict"
       THEN /\ data_entries' = (IF blob.has_data THEN blob.data ELSE <<>>)
            /\ total' = Len(data_entries')
            /\ pc' = "convert"
            /\ error' = error
       ELSE IF blob.kind = "list"
       THEN /\ data_entries' = blob.data
            /\ total' = Len(data_entries')
            /\ pc' = "convert"
            /\ error' = error
       ELSE /\ pc' = "crashed"
            /\ error' = "ValueError"
            /\ UNCHANGED <<data_entries, total>>
    /\ UNCHANGED <<CONFIG, probe, blob, payloads, futures, work_queue, num_threads, completed,
                   yielded, result, lock, processed, sent, skipped, failed, output, summary,
                   posts>>

\* line 118 with each payload handed to a thread as soon as it is converted
MainConvertStreaming ==
    /\ pc = "convert"
    /\ Len(payloads) < Len(data_entries)
    /\ LET e == data_entries[Len(payloads) + 1]
       IN  IF ConvertRaises(e)
           THEN /\ pc' = "crashed"
                /\ error' = "IndexError"
                /\ UNCHANGED <<payloads, futures, posts, work_queue, num_threads>>
           ELSE /\ payloads' = Append(payloads, convert_entry(e))
                /\ futures' = Append(futures, [state |-> "pending", result |-> <<>>])
                /\ posts' = Append(posts, 0)
                /\ work_queue' = Append(work_queue, Len(futures) + 1)
                /\ num_threads' = (IF num_threads < CONFIG.max_workers
                                   THEN num_threads + 1 ELSE num_threads)
                /\ UNCHANGED <<pc, error>>
    /\ UNCHANGED <<CONFIG, probe, blob, data_entries, total, completed, yielded, result,
                   lock, processed, sent, skipped, failed, output, summary>>

\* line 118, one entry of the comprehension
MainConvert ==
    /\ pc = "convert"
    /\ Len(payloads) < Len(data_entries)
    /\ LET e == data_entries[Len(payloads) + 1]
       IN  IF ConvertRaises(e)
           THEN /\ pc' = "crashed"
                /\ error' = "IndexError"
                /\ UNCHANGED payloads
           ELSE /\ payloads' = Append(payloads, convert_entry(e))
                /\ UNCHANGED <<pc, error>>
    /\ UNCHANGED <<CONFIG, probe, blob, data_entries, total, futures, work_queue, num_threads,
                   completed, yielded, result, lock, processed, sent, skipped, failed, output,
                   summary, posts>>

\* lines 120-127: the counters, the lock and the executor
MainStartPool ==
    /\ pc = "convert"
    /\ Len(payloads) = Len(data_entries)
    /\ pc' = "submit"
    /\ sent' = 0
    /\ failed' = 0
    /\ skipped' = 0
    /\ processed' = 0
    /\ lock' = FALSE
    /\ num_threads' = 0
    /\ work_queue' = <<>>
    /\ UNCHANGED <<CONFIG, probe, blob, error, data_entries, total, payloads, futures,
                   completed, yielded, result, output, summary, posts>>

\* line 128 on an executor that starts a thread per submission
MainSubmitNoCap ==
    /\ pc = "submit"
    /\ Len(futures) < Len(payloads)
    /\ futures' = Append(futures, [state |-> "pending", result |-> <<>>])
    /\ posts' = Append(posts, 0)
    /\ work_queue' = Append(work_queue, Len(futures) + 1)
    /\ num_threads' = num_threads + 1
    /\ UNCHANGED <<CONFIG, probe, blob, pc, error, data_entries, total, payloads, completed,
                   yielded, result, lock, processed, sent, skipped, failed, output, summary>>

\* line 128, one executor.submit: the executor starts a thread while it has fewer than
\* max_workers
MainSubmit ==
    /\ pc = "submit"
    /\ Len(futures) < Len(payloads)
    /\ futures' = Append(futures, [state |-> "pending", result |-> <<>>])
    /\ posts' = Append(posts, 0)
    /\ work_queue' = Append(work_queue, Len(futures) + 1)
    /\ num_threads' = (IF num_threads < CONFIG.max_workers THEN num_threads + 1 ELSE num_threads)
    /\ UNCHANGED <<CONFIG, probe, blob, pc, error, data_entries, total, payloads, completed,
                   yielded, result, lock, processed, sent, skipped, failed, output, summary>>

\* line 130, the call of as_completed: the futures already finished are listed in the
\* order of a set, the later ones in the order they finish
MainAsCompleted ==
    /\ pc = "submit"
    /\ Len(futures) = Len(payloads)
    /\ pc' = "collect"
    /\ completed' \in Perms(completed)
    /\ UNCHANGED <<CONFIG, probe, blob, error, data_entries, total, payloads, futures,
                   work_queue, num_threads, yielded, result, lock, processed, sent, skipped,
                   failed, output, summary, posts>>

\* an idle thread of the pool takes the next submission and calls send_waypoint
WorkerStart(i) ==
    /\ work_queue # <<>>
    /\ i = Head(work_queue)
    /\ Cardinality(Running) < num_threads
    /\ work_queue' = Tail(work_queue)
    /\ futures' = [futures EXCEPT ![i].state = "running"]
    /\ UNCHANGED <<CONFIG, probe, blob, pc, error, data_entries, total, payloads, num_threads,
                   completed, yielded, result, lock, processed, sent, skipped, failed, output,
                   summary, posts>>

\* the future of submission i gets its outcome
Finish(i, r) ==
    /\ futures' = [futures EXCEPT ![i] = [state |-> "finished", result |-> <<r>>]]
    /\ completed' = Append(completed, i)

\* lines 40-41 in a thread: dry run, no request
WorkerDryRun(i) ==
    /\ i \in Running
    /\ CONFIG.dry_run
    /\ Finish(i, SendWaypoint(payloads[i], CONFIG, Exc(<<>>)))
    /\ UNCHANGED <<CONFIG, probe, blob, pc, error, data_entries, total, payloads, work_queue,
                   num_threads, yielded, result, lock, processed, sent, skipped, failed,
                   output, summary, posts>>

\* lines 43-81 in a thread: the POST, its answer, the result
WorkerPost(i) ==
    /\ i \in Running
    /\ ~CONFIG.dry_run
    /\ \E resp \in DispatchResponses : Finish(i, SendWaypoint(payloads[i], CONFIG, resp))
    /\ posts' = [posts EXCEPT ![i] = @ + 1]
    /\ UNCHANGED <<CONFIG, probe, blob, pc, error, data_entries, total, payloads, work_queue,
                   num_threads, yielded, result, lock, processed, sent, skipped, failed,
                   output, summary>>

\* lines 130-132: as_completed yields a future and future.result() returns its result or
\* raises its exception
MainTake ==
    /\ pc = "collect"
    /\ completed # <<>>
    /\ LET i == Head(completed)
           r == futures[i].result[1]
       IN  /\ completed' = Tail(completed)
           /\ yielded' = yielded \cup {i}
           /\ IF r.raised
              THEN /\ pc' = "unwind"
                   /\ error' = r.exc
                   /\ UNCHANGED result
              ELSE /\ pc' = "lock"
                   /\ result' = <<r>>
                   /\ UNCHANGED error
    /\ UNCHANGED <<CONFIG, probe, blob, data_entries, total, payloads, futures, work_queue,
                   num_threads, lock, processed, sent, skipped, failed, output, summary, posts>>

\* lines 134-136
MainLock ==
    /\ pc = "lock"
    /\ ~lock
    /\ lock' = TRUE
    /\ processed' = processed + 1
    /\ pc' = "report"
    /\ UNCHANGED <<CONFIG, probe, blob, error, data_entries, total, payloads, futures,
                   work_queue, num_threads, completed, yielded, result, sent, skipped, failed,
                   output, summary, posts>>

\* a progress line (lines 136, 143, 146, 149)
Line(kind, r) ==
    [processed |-> processed, total |-> total, kind |-> kind, name |-> r.payload.name]

\* lines 138-150 with the `failed += 1` of line 150 left out
MainReportFailedLost ==
    /\ pc = "report"
    /\ LET r == result[1]
           kind == TallyKind(r)
       IN  /\ output' = Append(output, Line(kind, r))
           /\ skipped' = (IF kind = "skipped" THEN skipped + 1 ELSE skipped)
           /\ sent' = (IF kind = "sent" THEN sent + 1 ELSE sent)
           /\ failed' = failed
    /\ lock' = FALSE
    /\ pc' = "collect"
    /\ UNCHANGED <<CONFIG, probe, blob, error, data_entries, total, payloads, futures,
                   work_queue, num_threads, completed, yielded, result, processed, summary,
                   posts>>

\* lines 138-150, and the lock released
MainReport ==
    /\ pc = "report"
    /\ LET r == result[1]
           kind == TallyKind(r)
       IN  /\ output' = Append(output, Line(kind, r))
           /\ skipped' = (IF kind = "skipped" THEN skipped + 1 ELSE skipped)
           /\ sent' = (IF kind = "sent" THEN sent + 1 ELSE sent)
           /\ failed' = (IF kind = "failed" THEN failed + 1 ELSE failed)
    /\ lock' = FALSE
    /\ pc' = "collect"
    /\ UNCHANGED <<CONFIG, probe, blob, error, data_entries, total, payloads, futures,
                   work_queue, num_threads, completed, yielded, result, processed, summary,
                   posts>>

\* line 130 ending as soon as no finished future waits to be yielded
MainLoopEndEarly ==
    /\ pc = "collect"
    /\ completed = <<>>
    /\ pc' = "summary"
    /\ UNCHANGED <<CONFIG, probe, blob, error, data_entries, total, payloads, futures,
                   work_queue, num_threads, completed, yielded, result, lock, processed, sent,
                   skipped, failed, output, summary, posts>>

\* line 130 with every future yielded, and the executor's exit of line 127
MainLoopEnd ==
    /\ pc = "collect"
    /\ yielded = 1..Len(futures)
    /\ pc' = "summary"
    /\ UNCHANGED <<CONFIG, probe, blob, error, data_entries, total, payloads, futures,
                   work_queue, num_threads, completed, yielded, result, lock, processed, sent,
                   skipped, failed, output, summary, posts>>

\* lines 152-157
MainSummary ==
    /\ pc = "summary"
    /\ summary' = <<[sent |-> sent, skipped |-> skipped, failed |-> failed]>>
    /\ pc' = "done"
    /\ UNCHANGED <<CONFIG, probe, blob, error, data_entries, total, payloads, futures,
                   work_queue, num_threads, completed, yielded, result, lock, processed, sent,
                   skipped, failed, output, posts>>

\* the exception of line 131 leaves the with block of line 127: the executor's exit
\* waits for every submission, then the exception leaves main
MainUnwind ==
    /\ pc = "unwind"
    /\ Finished = 1..Len(futures)
    /\ pc' = "crashed"
    /\ UNCHANGED <<CONFIG, probe, blob, error, data_entries, total, payloads, futures,
                   work_queue, num_threads, completed, yielded, result, lock, processed, sent,
                   skipped, failed, output, summary, posts>>

Next ==
    \/ MainLoad
    \/ MainConvert
    \/ MainStartPool
    \/ MainSubmit
    \/ MainAsCompleted
    \/ \E i \in 1..Len(futures) : WorkerStart(i)
    \/ \E i \in 1..Len(futures) : WorkerDryRun(i)
    \/ \E i \in 1..Len(futures) : WorkerPost(i)
    \/ MainTake
    \/ MainLock
    \/ MainReport
    \/ MainLoopEnd
    \/ MainSummary
    \/ MainUnwind

Spec == Init /\ [][Next]_vars

(***************************************************************************)
(* send_waypoint and main's tally branch on every answer of Responses.     *)
(***************************************************************************)
ProbeInit ==
    /\ CONFIG \in Configs
    /\ probe \in [stage : {"called"}, resp : Responses, out : {<<>>}, tally : {""}]
    /\ blob = Blob("list", FALSE, <<>>)
    /\ pc = "load"
    /\ error = ""
    /\ data_entries = <<>>
    /\ total = 0
    /\ payloads = <<>>
    /\ futures = <<>>
    /\ work_queue = <<>>
    /\ num_threads = 0
    /\ completed = <<>>
    /\ yielded = {}
    /\ result = <<>>
    /\ lock = FALSE
    /\ processed = 0
    /\ sent = 0
    /\ skipped = 0
    /\ failed = 0
    /\ output = <<>>
    /\ summary = <<>>
    /\ posts = <<>>

\* send_waypoint returns or raises
ProbeReturn ==
    /\ probe.stage = "called"
    /\ probe' = [probe EXCEPT !.stage = "returned",
                              !.out = <<SendWaypoint(convert_entry(RecFountain), CONFIG, probe.resp)>>]
    /\ UNCHANGED <<CONFIG, mainVars>>

\* main takes the branch of lines 138-150 on the returned result
ProbeTally ==
    /\ probe.stage = "returned"
    /\ ~probe.out[1].raised
    /\ probe' = [probe EXCEPT !.stage = "tallied", !.tally = TallyKind(probe.out[1])]
    /\ UNCHANGED <<CONFIG, mainVars>>

ProbeNext == ProbeReturn \/ ProbeTally

SpecClassify == ProbeInit /\ [][ProbeNext]_vars

(***************************************************************************)
(* The claims.                                                             *)
(***************************************************************************)
\* main has ended, with its summary or with an exception
RunEnded == pc \in {"done", "crashed"}

\* the batch was converted and handed to the dispatcher loop
Dispatched == pc \in {"submit", "collect", "lock", "report", "summary", "unwind", "done"}
              \/ (pc = "crashed" /\ error \notin {"ValueError", "IndexError"})

\* C1: whenever a run whose batch of N payloads reached the dispatcher has ended, N
\* results were consumed and sent + skipped + failed = N.
C1_TallyComplete ==
    (RunEnded /\ Dispatched) =>
        /\ processed = Len(payloads)
        /\ Len(output) = Len(payloads)
        /\ sent + skipped + failed = Len(payloads)

\* C2: send_waypoint never raises: no future holds an exception and main is never
\* ended by one that future.result() re-raised.
C2_NeverRaises ==
    /\ \A i \in Finished : ~futures[i].result[1].raised
    /\ pc # "unwind"
    /\ error # "AttributeError"

\* C3: the send_waypoint invocations executing at once never exceed max_workers.
C3_ConcurrencyBound == Cardinality(Running) <= CONFIG.max_workers

\* a batch larger than the pool, the pool full and a submission waiting for a thread
C3_Witness ==
    /\ Len(futures) > CONFIG.max_workers
    /\ Cardinality(Running) = CONFIG.max_workers
    /\ work_queue # <<>>

\* the probe's call was a real POST answered by a non-ok HTTP response
ProbeNotOk ==
    /\ probe.stage \in {"returned", "tallied"}
    /\ ~CONFIG.dry_run
    /\ probe.resp.kind = "http"
    /\ probe.resp.status >= 400

\* C4: for a non-ok response whose extracted error text lowercases to T, the result is
\* skipped exactly when T contains "unique constraint" or "p2002", or the aggressive flag
\* is on and T contains "duplicate" or both "latitude" and "longitude"; otherwise it is
\* tallied as failed.  A text with only "duplicate" fails in strict mode and is skipped
\* in aggressive mode.
C4_Classification ==
    (ProbeNotOk /\ ErrText(probe.resp.body).t = "str") =>
        LET T == Lower(ErrText(probe.resp.body).s)
            strict == Contains(<<"u","n","i","q","u","e"," ","c","o","n","s","t","r","a","i","n","t">>, T)
                      \/ Contains(<<"p","2","0","0","2">>, T)
            loose == Contains(<<"d","u","p","l","i","c","a","t","e">>, T)
                     \/ (Contains(<<"l","a","t","i","t","u","d","e">>, T)
                         /\ Contains(<<"l","o","n","g","i","t","u","d","e">>, T))
            dup == strict \/ (CONFIG.aggressive_duplicate_detection /\ loose)
            r == probe.out[1]
        IN  /\ ~r.raised
            /\ ~r.ok
            /\ r.skipped = dup
            /\ probe.stage = "tallied" => probe.tally = (IF dup THEN "skipped" ELSE "failed")
            /\ (probe.resp.body = BodyDuplicateEntry /\ probe.stage = "tallied") =>
                   probe.tally = (IF CONFIG.aggressive_duplicate_detection
                                  THEN "skipped" ELSE "failed")

\* "duplicate entry detected" answered with status 400 is skipped in aggressive mode
C4_Witness ==
    /\ ProbeNotOk
    /\ probe.resp.body = BodyDuplicateEntry
    /\ CONFIG.aggressive_duplicate_detection
    /\ probe.stage = "tallied"
    /\ probe.tally = "skipped"

\* C5: a response with ok true gives a result that is ok and not skipped, tallied as
\* sent, whatever its status, its body and the aggressive flag.
C5_OkIsSuccess ==
    (probe.stage \in {"returned", "tallied"} /\ ~CONFIG.dry_run
     /\ probe.resp.kind = "http" /\ probe.resp.status < 400) =>
        /\ ~probe.out[1].raised
        /\ probe.out[1].ok
        /\ ~probe.out[1].skipped
        /\ probe.stage = "tallied" => probe.tally = "sent"

\* an ok response whose body carries the strict duplicate signature, tallied as sent
C5_Witness ==
    /\ probe.stage = "tallied"
    /\ ~CONFIG.dry_run
    /\ probe.resp = Http(200, BodyUniqueFailed)
    /\ CONFIG.aggressive_duplicate_detection
    /\ probe.tally = "sent"

\* C6: with dry_run on no POST is issued, every result is a success, and a finished run
\* has sent = total and skipped = failed = 0.
C6_DryRun ==
    CONFIG.dry_run =>
        /\ \A i \in 1..Len(posts) : posts[i] = 0
        /\ \A i \in Finished :
              LET r == futures[i].result[1]
              IN  ~r.raised /\ r.ok /\ ~r.skipped /\ r.payload = payloads[i]
        /\ pc \notin {"unwind"}
        /\ (RunEnded /\ Dispatched) =>
              (pc = "done" /\ sent = total /\ total = Len(payloads)
               /\ skipped = 0 /\ failed = 0)

\* a finished dry run over a batch larger than the pool
C6_Witness ==
    /\ CONFIG.dry_run
    /\ pc = "done"
    /\ total > CONFIG.max_workers
    /\ sent = total

\* C7: a RequestException during the POST gives a failed result with no status code
\* and the exception's description as response, never skipped, tallied as failed.
C7_TransportFailure ==
    (probe.stage \in {"returned", "tallied"} /\ ~CONFIG.dry_run /\ probe.resp.kind = "exc") =>
        LET r == probe.out[1]
        IN  /\ ~r.raised
            /\ ~r.ok
            /\ ~r.skipped
            /\ r.status_code = <<>>
            /\ r.response = <<JStr(probe.resp.exc)>>
            /\ probe.stage = "tallied" => probe.tally = "failed"

\* an exception whose text holds duplicate signatures, in aggressive mode, tallied failed
C7_Witness ==
    /\ probe.stage = "tallied"
    /\ ~CONFIG.dry_run
    /\ probe.resp = Exc(TxtExcDuplicate)
    /\ CONFIG.aggressive_duplicate_detection
    /\ probe.tally = "failed"

\* the k-th progress line carries processed = k, and outside the lock as many lines
\* are printed as results were counted
ProgressLinesInStep ==
    /\ \A k \in 1..Len(output) : output[k].processed = k
    /\ processed = Len(output) + (IF lock THEN 1 ELSE 0)
    /\ lock <=> (pc = "report")

\* C8: every completed submission gets one tally update and one progress line under
\* the lock, so the lines carry 1, 2, ... in order and an ended run has printed 1..N.
C8_ProgressLines ==
    /\ ProgressLinesInStep
    /\ (RunEnded /\ Dispatched) => Len(output) = Len(payloads)

\* every payload was submitted and every submission has completed
AllCompleted ==
    /\ Len(futures) = Len(payloads)
    /\ Finished = 1..Len(futures)
    /\ work_queue = <<>>

\* C9: main is past the dispatcher (summary printed, or left by an exception) only
\* when every submission has completed; a failed item leaves the others to complete.
C9_FinishAfterAll ==
    (pc \in {"summary", "done"} \/ (pc = "crashed" /\ Dispatched)) => AllCompleted

\* a finished run in which one item failed and another was sent
C9_Witness ==
    /\ pc = "done"
    /\ failed >= 1
    /\ sent >= 1

\* C10: an entry with no category does not end the run with an exception, and the
\* well-formed entries of its batch are still submitted.
C10_MalformedRecordContained ==
    RunEnded =>
        /\ error # "IndexError"
        /\ blob.kind # "other" =>
              Len(futures) >= Cardinality({ k \in 1..Len(data_entries) : data_entries[k][2] # <<>> })

\* the input document is neither a list nor an object with a `data` key
MalformedShape == blob.kind = "other" \/ (blob.kind = "dict" /\ ~blob.has_data)

\* C11: an input document that is neither a list nor an object with a `data` key ends
\* main with an error before anything is converted or dispatched; it is never run as
\* an empty batch.
C11_MalformedInputFatal ==
    MalformedShape =>
        /\ pc \in {"load", "crashed"}
        /\ pc = "crashed" => error = "ValueError"
        /\ summary = <<>>

\* C12: every payload converted from an entry has the name "<categories[0]> <code>" and
\* the entry's latitude and longitude (positions 2 and 3) unchanged; the entry
\* ["B12", ["Fountain"], -31, 115] gives "Fountain B12", -31, 115.
C12_ConvertFields ==
    \A k \in 1..Len(payloads) :
        LET e == data_entries[k]
            p == payloads[k]
        IN  /\ p.name = e[2][1] \o " " \o e[1]
            /\ p.latitude = e[3]
            /\ p.longitude = e[4]
            /\ e = <<"B12", <<"Fountain">>, -31, 115>> =>
                  (p.name = "Fountain B12" /\ p.latitude = -31 /\ p.longitude = 115)

\* an entry with two categories converted: the first one names the payload
C12_Witness ==
    /\ Len(payloads) >= 2
    /\ data_entries[2] = RecTap
    /\ payloads[2].name = "Tap T7"
    /\ payloads[2].latitude = 10
    /\ payloads[2].longitude = 20

\* whether a lowercased text carries a duplicate signature under the current flags
DupSignature(T) ==
    \/ Contains(<<"u","n","i","q","u","e"," ","c","o","n","s","t","r","a","i","n","t">>, T)
    \/ Contains(<<"p","2","0","0","2">>, T)
    \/ /\ CONFIG.aggressive_duplicate_detection
       /\ \/ Contains(<<"d","u","p","l","i","c","a","t","e">>, T)
          \/ (Contains(<<"l","a","t","i","t","u","d","e">>, T)
              /\ Contains(<<"l","o","n","g","i","t","u","d","e">>, T))

HasKey(body, key) == \E k \in 1..Len(body.f) : body.f[k][1] = key

\* the value the claim as written classifies: a field that is present wins
TextByPresence(body) ==
    IF body.t = "obj" /\ HasKey(body, KeyError) THEN Get(body, KeyError)
    ELSE IF body.t = "obj" /\ HasKey(body, KeyMessage) THEN Get(body, KeyMessage)
    ELSE JStr(Str(body))

\* the value the amended claim classifies: a field that is present and truthy wins
TextByTruthiness(body) ==
    IF body.t = "obj" /\ HasKey(body, KeyError) /\ Truthy(Get(body, KeyError))
    THEN Get(body, KeyError)
    ELSE IF body.t = "obj" /\ HasKey(body, KeyMessage) /\ Truthy(Get(body, KeyMessage))
    THEN Get(body, KeyMessage)
    ELSE JStr(Str(body))

\* C13 as written: for a non-ok response the classified text is the `error` field if
\* the body has one, else the `message` field if it has one, else the stringified body.
C13_TextByPresence ==
    (ProbeNotOk /\ TextByPresence(probe.resp.body).t = "str") =>
        /\ ~probe.out[1].raised
        /\ probe.out[1].skipped = DupSignature(Lower(TextByPresence(probe.resp.body).s))

\* C13 amended: for a non-ok response the classified value is the `error` field if it
\* is present and truthy, else the `message` field if it is present and truthy, else
\* the stringified body; a chosen value that is no string makes send_waypoint raise.
C13_TextByTruthiness ==
    ProbeNotOk =>
        LET v == TextByTruthiness(probe.resp.body)
        IN  IF v.t = "str"
            THEN /\ ~probe.out[1].raised
                 /\ probe.out[1].skipped = DupSignature(Lower(v.s))
            ELSE probe.out[1].raised

\* an empty `error` beside a `message` with the strict signature: skipped
C13_Witness ==
    /\ ProbeNotOk
    /\ probe.resp.body = JObj(<< <<KeyError, JStr(<<>>)>>, <<KeyMessage, JStr(TxtP2002)>> >>)
    /\ ~CONFIG.aggressive_duplicate_detection
    /\ probe.stage = "tallied"
    /\ probe.tally = "skipped"

\* the yielded futures that hold a result of the given tally kind
YieldedOfKind(kind) ==
    { i \in yielded : ~futures[i].result[1].raised /\ TallyKind(futures[i].result[1]) = kind }

\* C14: outside the lock-protected region processed = sent + skipped + failed (inside it
\* processed is one ahead); processed never exceeds total nor the number of completed
\* send_waypoint invocations; each counter equals the number of results main has taken
\* of its kind, so no update is lost or applied twice.
C14_TallyConsistent ==
    /\ ~lock => processed = sent + skipped + failed
    /\ lock => processed = sent + skipped + failed + 1
    /\ processed <= total
    /\ processed <= Cardinality(Finished)
    /\ pc \notin {"lock", "report"} =>
          /\ sent = Cardinality(YieldedOfKind("sent"))
          /\ skipped = Cardinality(YieldedOfKind("skipped"))
          /\ failed = Cardinality(YieldedOfKind("failed"))

\* a counted result, a finished one not yet counted, and a submission still running
C14_Witness ==
    /\ ~lock
    /\ failed >= 1
    /\ processed < Cardinality(Finished)
    /\ Running # {}

\* the futures whose result main has taken from future.result()
Consumed == { i \in yielded : ~futures[i].result[1].raised }

\* every payload is submitted once and POSTed once (never in a dry run)
SubmittedOnce ==
    /\ Len(futures) <= Len(payloads)
    /\ Len(posts) = Len(futures)
    /\ \A i \in 1..Len(futures) :
          /\ posts[i] <= 1
          /\ CONFIG.dry_run => posts[i] = 0
          /\ (i \in Finished /\ ~CONFIG.dry_run) => posts[i] = 1
          /\ i \in Finished => futures[i].result[1].payload = payloads[i]

\* C15: each payload is submitted exactly once and, dry_run off, POSTed exactly once;
\* when the run has ended the payloads carried by the consumed results are, as a
\* multiset, the input payloads.
C15_ExactlyOnce ==
    /\ SubmittedOnce
    /\ (RunEnded /\ Dispatched) =>
          /\ Len(futures) = Len(payloads)
          /\ \A i \in 1..Len(futures) : posts[i] = (IF CONFIG.dry_run THEN 0 ELSE 1)
          /\ \A k \in 1..Len(payloads) :
                Cardinality({ i \in Consumed : futures[i].result[1].payload = payloads[k] })
                = Cardinality({ j \in 1..Len(payloads) : payloads[j] = payloads[k] })

\* the input document is a batch of entries that all have a category
WellFormedInput ==
    /\ blob.kind = "list" \/ (blob.kind = "dict" /\ blob.has_data)
    /\ \A k \in 1..Len(blob.data) : blob.data[k][2] # <<>>

\* C16: a run over a batch never stops short of the finished state: whenever no step
\* of main or of a pool thread is possible, the summary is printed and
\* processed = total (no deadlock, no other end).
C16_RunsToFinish ==
    WellFormedInput => ((pc = "done" /\ processed = total) \/ ENABLED Next)

\* the submissions whose outcome is a result of the given tally kind
OutcomesOfKind(kind) ==
    { i \in Finished : ~futures[i].result[1].raised /\ TallyKind(futures[i].result[1]) = kind }

\* C17: the counters a run ends with are the numbers of per-item outcomes of each kind,
\* whatever the completion order and max_workers; so two runs with the same per-item
\* answers end with the same counters.
C17_TallyByOutcomes ==
    (RunEnded /\ Dispatched) =>
        /\ sent = Cardinality(OutcomesOfKind("sent"))
        /\ skipped = Cardinality(OutcomesOfKind("skipped"))
        /\ failed = Cardinality(OutcomesOfKind("failed"))

\* the probe's call repeated with the aggressive flag set to b
ProbeWithFlag(b) ==
    SendWaypoint(convert_entry(RecFountain),
                 [CONFIG EXCEPT !.aggressive_duplicate_detection = b], probe.resp)

\* C18: for every answer, a result skipped with the flag off is skipped with it on, a
\* success is the same in both modes, and the only difference the flag makes is a
\* failed outcome becoming skipped.
C18_AggressiveMonotone ==
    probe.stage \in {"returned", "tallied"} =>
        LET off == ProbeWithFlag(FALSE)
            on == ProbeWithFlag(TRUE)
        IN  /\ probe.out[1] = (IF CONFIG.aggressive_duplicate_detection THEN on ELSE off)
            /\ off.raised = on.raised
            /\ off.ok = on.ok
            /\ off.skipped => on.skipped
            /\ ~off.raised =>
                  /\ TallyKind(off) = "sent" <=> TallyKind(on) = "sent"
                  /\ TallyKind(off) # TallyKind(on) =>
                        (TallyKind(off) = "failed" /\ TallyKind(on) = "skipped")

\* "duplicate entry detected" with the flag off: failed, and skipped with the flag on
C18_Witness ==
    /\ ProbeNotOk
    /\ ~CONFIG.aggressive_duplicate_detection
    /\ probe.resp.body = BodyDuplicateEntry
    /\ probe.stage = "tallied"
    /\ probe.tally = "failed"
    /\ ProbeWithFlag(TRUE).skipped

\* C19: nothing is submitted and no POST is issued before convert_entry has returned
\* for every entry; a run that conversion ended has submitted and POSTed nothing.
C19_ConvertBeforeSubmit ==
    /\ (futures # <<>> \/ \E i \in 1..Len(posts) : posts[i] > 0) =>
          Len(payloads) = Len(data_entries)
    /\ pc = "convert" => (futures = <<>> /\ posts = <<>>)
    /\ error = "IndexError" => (futures = <<>> /\ posts = <<>> /\ output = <<>>)

\* the second entry of a batch has no category: the first was converted, nothing was
\* submitted
C19_Witness ==
    /\ pc = "crashed"
    /\ error = "IndexError"
    /\ ~CONFIG.dry_run
    /\ Len(payloads) >= 1
    /\ futures = <<>>

====
